---- MODULE Spec2Model ----
(***************************************************************************)
(* Model of keys.py: the top-N report (largest_keys and the printing loop  *)
(* of main) and the synthetic population routine (populate_synthetic).     *)
(*                                                                         *)
(* Keys are modelled by the integers 1..MaxKeys; their integer order is    *)
(* the order Python gives the key strings ("a" < "b" < "c" ...).  A heap   *)
(* entry is the tuple <<memory, key>> that the code pushes (keys.py:147).  *)
(* The store is the environment: it chooses the pages of a scan, what a    *)
(* size lookup reports and whether a round trip fails.                     *)
(***************************************************************************)
EXTENDS Integers, Sequences, FiniteSets

\* ---------------------------------------------------------------- bounds
MaxKeys == 3
MaxSize == 1
MaxHeap == 2
MaxBatch == 2
MaxNumKeys == 2
MaxKeyLength == 2

\* what connection.memory_usage reports for a key that no longer exists
None == -1

Keys == 1..MaxKeys
Sizes == 0..MaxSize
Measurements == Sizes \cup {None}
\* a sample of string.ascii_letters + string.digits
Chars == {"a", "0"}

VARIABLES
    mode,                   \* which branch of main runs: "report" or "synpopulate"
    pc,                     \* position in the code
    error,                  \* the exception that ended largest_keys, or "none"
    memory_usage,           \* store: key -> what MEMORY USAGE reports for it
    heap_size,              \* argument of largest_keys
    batch_size,             \* argument of largest_keys
    cursor,                 \* local of largest_keys
    keys,                   \* local of largest_keys: the current page
    results,                \* local of largest_keys: the pipeline's replies
    idx,                    \* number of (key, memory) pairs of the page taken by the for loop
    key_memory_heap,        \* local of largest_keys
    key_memory_heap_sorted, \* local of main: what largest_keys returned
    stdout,                 \* the result lines main has printed
    no_keys,                \* main printed "No keys in database."
    unscanned,              \* store: keys the running SCAN iteration has not served yet
    requested,              \* history: the cursor passed to each scan call
    replied,                \* history: each scan reply, [cursor, n]: next cursor and page length
    executed,               \* history: the batch length of each pipeline.execute call
    prev_heap,              \* history: key_memory_heap as it was before the last heappush
    numKeys,                \* argument of populate_synthetic
    keyLength,              \* argument of populate_synthetic
    index,                  \* loop variable of populate_synthetic
    db,                     \* store: key name -> value, as written by connection.set
    set_failed              \* history: indexes whose connection.set raised

vars == <<mode, pc, error, memory_usage, heap_size, batch_size, cursor, keys,
          results, idx, key_memory_heap, key_memory_heap_sorted, stdout,
          no_keys, unscanned, requested, replied, executed, prev_heap,
          numKeys, keyLength, index, db, set_failed>>

reportVars == <<memory_usage, heap_size, batch_size, cursor, keys, results,
                idx, key_memory_heap, key_memory_heap_sorted, stdout, no_keys,
                unscanned, requested, replied, executed, prev_heap, error>>

populateVars == <<numKeys, keyLength, index, db, set_failed>>

\* ------------------------------------------------------------ helpers
Range(s) == {s[i] : i \in 1..Len(s)}

Min(a, b) == IF a < b THEN a ELSE b

\* ceil(a / b) for b >= 1
Ceil(a, b) == (a + b - 1) \div b

\* ------------------------------------------- tuple comparison (Python)
\* (m1, k1) < (m2, k2) compares the first elements that differ.  None == None
\* is true, so two None sizes fall through to the keys; None against an int
\* raises TypeError.
TupleRaises(a, b) == a[1] # b[1] /\ (a[1] = None \/ b[1] = None)

SizeOnlyLess(a, b) == a[1] < b[1]

TupleLess(a, b) == IF a[1] # b[1] THEN a[1] < b[1] ELSE a[2] < b[2]

\* ------------------------------------------------------------- heapq
\* The outcome of a heap operation: the new list, or a raised TypeError.
Raised == [raised |-> TRUE, heap |-> <<>>]
Ok(h) == [raised |-> FALSE, heap |-> h]

\* heapq._siftdown(heap, startpos, pos); positions are 0-based as in Python.
RECURSIVE siftdown(_, _, _, _)
siftdown(heap, startpos, pos, newitem) ==
    IF pos > startpos
    THEN LET parentpos == (pos - 1) \div 2
             parent == heap[parentpos + 1]
         IN  IF TupleRaises(newitem, parent) THEN Raised
             ELSE IF TupleLess(newitem, parent)
                  THEN siftdown([heap EXCEPT ![pos + 1] = parent],
                                startpos, parentpos, newitem)
                  ELSE Ok([heap EXCEPT ![pos + 1] = newitem])
    ELSE Ok([heap EXCEPT ![pos + 1] = newitem])

\* heapq._siftup(heap, pos): bubble the smaller child up to a leaf, then
\* sift the new item down from there.
RECURSIVE siftup(_, _, _, _)
siftup(heap, startpos, pos, newitem) ==
    LET endpos == Len(heap)
        childpos == 2 * pos + 1
        rightpos == childpos + 1
    IN  IF childpos < endpos
        THEN IF rightpos < endpos
                /\ TupleRaises(heap[childpos + 1], heap[rightpos + 1])
             THEN Raised
             ELSE LET c == IF rightpos < endpos
                              /\ ~TupleLess(heap[childpos + 1], heap[rightpos + 1])
                           THEN rightpos ELSE childpos
                  IN  siftup([heap EXCEPT ![pos + 1] = heap[c + 1]],
                             startpos, c, newitem)
        ELSE siftdown([heap EXCEPT ![pos + 1] = newitem], startpos, pos, newitem)

\* heapq.heappush(heap, item)
heappush(heap, item) == siftdown(Append(heap, item), 0, Len(heap), item)

\* heap.pop(): drops the last element of the list, not the least
list_pop(heap) == Ok(SubSeq(heap, 1, Len(heap) - 1))

\* heapq.heappop(heap), for a non-empty heap; the popped item is not used.
heappop(heap) ==
    LET lastelt == heap[Len(heap)]
        rest == SubSeq(heap, 1, Len(heap) - 1)
    IN  IF rest # <<>>
        THEN siftup([rest EXCEPT ![1] = lastelt], 0, 0, lastelt)
        ELSE Ok(rest)

\* ------------------------------------------------------------- sorted
\* sorted(heap, key=lambda x: x[0], reverse=True) is a stable sort on the
\* sizes alone.  It compares the keys x[0] with <, so any None among two or
\* more entries raises TypeError (None < None raises as well).
SortRaises(h) == Len(h) >= 2 /\ \E i \in 1..Len(h) : h[i][1] = None

InsertDesc(s, x) ==
    LET n == Cardinality({i \in 1..Len(s) : s[i][1] >= x[1]})
    IN  SubSeq(s, 1, n) \o <<x>> \o SubSeq(s, n + 1, Len(s))

InsertAsc(s, x) ==
    LET n == Cardinality({i \in 1..Len(s) : s[i][1] <= x[1]})
    IN  SubSeq(s, 1, n) \o <<x>> \o SubSeq(s, n + 1, Len(s))

RECURSIVE sorted_asc(_)
sorted_asc(h) ==
    IF h = <<>> THEN <<>>
    ELSE InsertAsc(sorted_asc(SubSeq(h, 1, Len(h) - 1)), h[Len(h)])

RECURSIVE sorted(_)
sorted(h) ==
    IF h = <<>> THEN <<>>
    ELSE InsertDesc(sorted(SubSeq(h, 1, Len(h) - 1)), h[Len(h)])

\* -------------------------------------------------------------- store
\* The ways connection.scan(cursor, match='*', count=batch_size) may answer:
\* a page of not yet served keys, in any order, of at least one and at most
\* `count` keys while keys remain, and the next cursor.  The cursor is 0
\* exactly when the iteration is complete; the store may complete with the
\* page that serves the last key or with one more, empty, page (the only
\* page of an empty keyspace).  A non-zero cursor is a fresh token.
PageLengths(count) ==
    IF unscanned = {} THEN {0} ELSE 1..Min(count, Cardinality(unscanned))

PagesOfLength(n) ==
    {s \in [1..n -> unscanned] : \A i, j \in 1..n : i # j => s[i] # s[j]}

FreshCursor == Len(requested) + 1

NextCursors(page) ==
    IF unscanned = {} THEN {0}
    ELSE IF unscanned \ Range(page) = {} THEN {0, FreshCursor}
    ELSE {FreshCursor}

\* ------------------------------------------------------- largest_keys
\* An exception leaves largest_keys: its frame, and with it the locals, is gone.
RaiseFrom(kind) ==
    /\ pc' = "raised"
    /\ error' = kind
    /\ cursor' = 0
    /\ keys' = <<>>
    /\ results' = <<>>
    /\ idx' = 0
    /\ key_memory_heap' = <<>>
    /\ prev_heap' = <<>>

\* What every step of the report leaves alone.
Fixed == <<mode, memory_usage, heap_size, batch_size, populateVars>>

\* keys.py:121-124
ValidateRaises ==
    /\ pc = "validate"
    /\ heap_size <= 0 \/ batch_size <= 0
    /\ RaiseFrom("ValueError")
    /\ UNCHANGED <<Fixed, key_memory_heap_sorted, stdout, no_keys, unscanned,
                   requested, replied, executed>>

\* keys.py:126-127
ValidateOk ==
    /\ pc = "validate"
    /\ heap_size > 0 /\ batch_size > 0
    /\ cursor' = 0
    /\ key_memory_heap' = <<>>
    /\ pc' = "scan"
    /\ UNCHANGED <<Fixed, error, keys, results, idx, key_memory_heap_sorted,
                   stdout, no_keys, unscanned, requested, replied, executed,
                   prev_heap>>

ScanKeepsCursor ==
    /\ pc = "scan"
    /\ \E n \in PageLengths(batch_size) :
         \E page \in PagesOfLength(n) :
           \E next \in NextCursors(page) :
             /\ keys' = page
             /\ cursor' = cursor
             /\ unscanned' = unscanned \ Range(page)
             /\ requested' = Append(requested, cursor)
             /\ replied' = Append(replied, [cursor |-> next, n |-> n])
    /\ pc' = "pipeline"
    /\ UNCHANGED <<Fixed, error, results, idx, key_memory_heap,
                   key_memory_heap_sorted, stdout, no_keys, executed, prev_heap>>

\* keys.py:131-132, the call returning
Scan ==
    /\ pc = "scan"
    /\ \E n \in PageLengths(batch_size) :
         \E page \in PagesOfLength(n) :
           \E next \in NextCursors(page) :
             /\ keys' = page
             /\ cursor' = next
             /\ unscanned' = unscanned \ Range(page)
             /\ requested' = Append(requested, cursor)
             /\ replied' = Append(replied, [cursor |-> next, n |-> n])
    /\ pc' = "pipeline"
    /\ UNCHANGED <<Fixed, error, results, idx, key_memory_heap,
                   key_memory_heap_sorted, stdout, no_keys, executed, prev_heap>>

ScanRaisesReturnsPartial ==
    /\ pc = "scan"
    /\ requested' = Append(requested, cursor)
    /\ error' = "scan"
    /\ key_memory_heap_sorted' = sorted(key_memory_heap)
    /\ pc' = "main"
    /\ UNCHANGED <<Fixed, cursor, keys, results, idx, key_memory_heap, stdout,
                   no_keys, unscanned, replied, executed, prev_heap>>

\* keys.py:133-134, the call raising redis.RedisError
ScanRaises ==
    /\ pc = "scan"
    /\ requested' = Append(requested, cursor)
    /\ RaiseFrom("scan")
    /\ UNCHANGED <<Fixed, key_memory_heap_sorted, stdout, no_keys, unscanned,
                   replied, executed>>

ExecuteSkipsEmpty ==
    /\ pc = "pipeline"
    /\ results' = [i \in 1..Len(keys) |-> memory_usage[keys[i]]]
    /\ executed' = IF keys = <<>> THEN executed ELSE Append(executed, Len(keys))
    /\ idx' = 0
    /\ pc' = "zip"
    /\ UNCHANGED <<Fixed, error, cursor, keys, key_memory_heap,
                   key_memory_heap_sorted, stdout, no_keys, unscanned,
                   requested, replied, prev_heap>>

\* keys.py:137-140: one memory_usage command per key of the page, then one
\* pipeline.execute(); the replies are aligned with the keys.
Execute ==
    /\ pc = "pipeline"
    /\ results' = [i \in 1..Len(keys) |-> memory_usage[keys[i]]]
    /\ executed' = Append(executed, Len(keys))
    /\ idx' = 0
    /\ pc' = "zip"
    /\ UNCHANGED <<Fixed, error, cursor, keys, key_memory_heap,
                   key_memory_heap_sorted, stdout, no_keys, unscanned,
                   requested, replied, prev_heap>>

\* keys.py:141-143, pipeline.execute() raising redis.RedisError
ExecuteRaises ==
    /\ pc = "pipeline"
    /\ executed' = Append(executed, Len(keys))
    /\ RaiseFrom("lookup")
    /\ UNCHANGED <<Fixed, key_memory_heap_sorted, stdout, no_keys, unscanned,
                   requested, replied>>

HeapTooLongOffByOne(h) == Len(h) > heap_size + 1

\* keys.py:148
HeapTooLong(h) == Len(h) > heap_size

\* keys.py:146-148: one turn of `for key, memory in zip(keys, results)`, the
\* heappush and the test of the heap's length.  A TypeError of a comparison
\* is re-raised by keys.py:150-151.
HeapPush ==
    /\ pc = "zip"
    /\ idx < Min(Len(keys), Len(results))
    /\ LET r == heappush(key_memory_heap, <<results[idx + 1], keys[idx + 1]>>)
       IN  IF r.raised
           THEN RaiseFrom("heap")
           ELSE /\ key_memory_heap' = r.heap
                /\ prev_heap' = key_memory_heap
                /\ idx' = idx + 1
                /\ pc' = IF HeapTooLong(r.heap) THEN "pop" ELSE "zip"
                /\ UNCHANGED <<error, cursor, keys, results>>
    /\ UNCHANGED <<Fixed, key_memory_heap_sorted, stdout, no_keys, unscanned,
                   requested, replied, executed>>

\* keys.py:149
HeapPop ==
    /\ pc = "pop"
    /\ LET r == heappop(key_memory_heap)
       IN  IF r.raised
           THEN RaiseFrom("heap")
           ELSE /\ key_memory_heap' = r.heap
                /\ pc' = "zip"
                /\ UNCHANGED <<error, cursor, keys, results, idx, prev_heap>>
    /\ UNCHANGED <<Fixed, key_memory_heap_sorted, stdout, no_keys, unscanned,
                   requested, replied, executed>>

\* keys.py:152-153 with cursor != 0: the loop goes round
NextPage ==
    /\ pc = "zip"
    /\ idx >= Min(Len(keys), Len(results))
    /\ cursor # 0
    /\ pc' = "scan"
    /\ UNCHANGED <<Fixed, error, cursor, keys, results, idx, key_memory_heap,
                   key_memory_heap_sorted, stdout, no_keys, unscanned,
                   requested, replied, executed, prev_heap>>

ReturnAscending ==
    /\ pc = "zip"
    /\ idx >= Min(Len(keys), Len(results))
    /\ cursor = 0
    /\ IF SortRaises(key_memory_heap)
       THEN /\ RaiseFrom("sort")
            /\ UNCHANGED key_memory_heap_sorted
       ELSE /\ key_memory_heap_sorted' = sorted_asc(key_memory_heap)
            /\ pc' = "main"
            /\ UNCHANGED <<error, cursor, keys, results, idx, key_memory_heap,
                           prev_heap>>
    /\ UNCHANGED <<Fixed, stdout, no_keys, unscanned, requested, replied,
                   executed>>

\* keys.py:152-154 with cursor == 0, and the assignment of keys.py:254
Return ==
    /\ pc = "zip"
    /\ idx >= Min(Len(keys), Len(results))
    /\ cursor = 0
    /\ IF SortRaises(key_memory_heap)
       THEN /\ RaiseFrom("sort")
            /\ UNCHANGED key_memory_heap_sorted
       ELSE /\ key_memory_heap_sorted' = sorted(key_memory_heap)
            /\ pc' = "main"
            /\ UNCHANGED <<error, cursor, keys, results, idx, key_memory_heap,
                           prev_heap>>
    /\ UNCHANGED <<Fixed, stdout, no_keys, unscanned, requested, replied,
                   executed>>

\* ---------------------------------------------------------------- main
\* f"{key}: {memory}" for the loop header `for key, memory in ...`: the
\* tuple's first element is bound to `key`, its second to `memory`.
PrintLine(entry) ==
    LET key == entry[1]
        memory == entry[2]
    IN  [before_colon |-> key, after_colon |-> memory]

MainNoKeys ==
    /\ pc = "main"
    /\ key_memory_heap_sorted = <<>>
    /\ no_keys' = TRUE
    /\ pc' = "exit"
    /\ UNCHANGED <<Fixed, error, cursor, keys, results, idx, key_memory_heap,
                   key_memory_heap_sorted, stdout, unscanned, requested,
                   replied, executed, prev_heap>>

MainPrint ==
    /\ pc = "main"
    /\ Len(stdout) < Len(key_memory_heap_sorted)
    /\ stdout' = Append(stdout, PrintLine(key_memory_heap_sorted[Len(stdout) + 1]))
    /\ pc' = IF Len(stdout') = Len(key_memory_heap_sorted) THEN "exit" ELSE "main"
    /\ UNCHANGED <<Fixed, error, cursor, keys, results, idx, key_memory_heap,
                   key_memory_heap_sorted, no_keys, unscanned, requested,
                   replied, executed, prev_heap>>

\* -------------------------------------------------- populate_synthetic
\* random_string(length): the strings random.choices can produce.
random_string(length) == [1..length -> Chars]

\* 'key' + f'{index}'
keyName(i) == <<"key", i>>

Put(d, name, value) ==
    [n \in DOMAIN d \cup {name} |-> IF n = name THEN value ELSE d[n]]

PopulateSet ==
    /\ pc = "populate"
    /\ index < numKeys
    /\ \E keyValue \in random_string(keyLength) :
         db' = Put(db, keyName(index), keyValue)
    /\ index' = index + 1
    /\ UNCHANGED <<mode, pc, reportVars, numKeys, keyLength, set_failed>>

PopulateSetRaises ==
    /\ pc = "populate"
    /\ index < numKeys
    /\ set_failed' = set_failed \cup {index}
    /\ index' = index + 1
    /\ UNCHANGED <<mode, pc, reportVars, numKeys, keyLength, db>>

PopulateDone ==
    /\ pc = "populate"
    /\ index >= numKeys
    /\ pc' = "exit"
    /\ UNCHANGED <<mode, reportVars, populateVars>>

\* ------------------------------------------------------- specification
EmptyFunction == [x \in {} |-> x]

\* largest_keys is entered with any arguments (main passes --heap-size and
\* a batch size of 10) against any keyspace.
InitReport ==
    /\ mode = "report"
    /\ pc = "validate"
    /\ \E S \in SUBSET Keys : memory_usage \in [S -> Measurements]
    /\ unscanned = DOMAIN memory_usage
    /\ heap_size \in 0..MaxHeap
    /\ batch_size \in 0..MaxBatch
    /\ numKeys = 0
    /\ keyLength = 0

InitPopulate ==
    /\ mode = "synpopulate"
    /\ pc = "populate"
    /\ memory_usage = EmptyFunction
    /\ unscanned = {}
    /\ heap_size = 1
    /\ batch_size = 1
    /\ numKeys \in 0..MaxNumKeys
    /\ keyLength \in 0..MaxKeyLength

Init ==
    /\ InitReport \/ InitPopulate
    /\ error = "none"
    /\ cursor = 0
    /\ keys = <<>>
    /\ results = <<>>
    /\ idx = 0
    /\ key_memory_heap = <<>>
    /\ key_memory_heap_sorted = <<>>
    /\ stdout = <<>>
    /\ no_keys = FALSE
    /\ requested = <<>>
    /\ replied = <<>>
    /\ executed = <<>>
    /\ prev_heap = <<>>
    /\ index = 0
    /\ db = EmptyFunction
    /\ set_failed = {}

Next ==
    \/ ValidateRaises
    \/ ValidateOk
    \/ Scan
    \/ ScanRaises
    \/ Execute
    \/ ExecuteRaises
    \/ HeapPush
    \/ HeapPop
    \/ NextPage
    \/ Return
    \/ MainNoKeys
    \/ MainPrint
    \/ PopulateSet
    \/ PopulateSetRaises
    \/ PopulateDone

Spec == Init /\ [][Next]_vars

\* The program is one sequential thread: a step that can be taken is taken.
FairSpec == Spec /\ WF_vars(Next)

\* ================================================================ claims
K == Cardinality(DOMAIN memory_usage)

\* largest_keys has returned its list to main
Returned == mode = "report" /\ pc \in {"main", "exit"} /\ error = "none"

\* every key of the keyspace has an integer size
IntSizes == \A k \in DOMAIN memory_usage : memory_usage[k] # None

SizeOf(e) == e[1]
KeyOf(e) == e[2]

\* the keyspace as (size, key) entries
Entries == {<<memory_usage[k], k>> : k \in DOMAIN memory_usage}

\* the i-th largest size of the keyspace, 1 <= i <= K
NthLargestSize(i) ==
    CHOOSE s \in Sizes :
        /\ Cardinality({k \in DOMAIN memory_usage : memory_usage[k] > s}) < i
        /\ Cardinality({k \in DOMAIN memory_usage : memory_usage[k] >= s}) >= i

SortedDescending(r) ==
    \A i, j \in 1..Len(r) : i < j => SizeOf(r[i]) >= SizeOf(r[j])

\* ---------------------------------------------------------------- C1
\* C1: for a keyspace of K keys with integer sizes, any N >= 1 and any
\* paging, the list largest_keys returns is sorted by size descending, holds
\* entries of the keyspace, one per key, has exactly K entries covering the
\* whole keyspace when K <= N, and exactly N entries whose sizes are the N
\* largest sizes when K > N.
C1_TopN ==
    (Returned /\ IntSizes) =>
        LET r == key_memory_heap_sorted
        IN  /\ SortedDescending(r)
            /\ Range(r) \subseteq Entries
            /\ Cardinality(Range(r)) = Len(r)
            /\ Len(r) = Min(K, heap_size)
            /\ K <= heap_size => Range(r) = Entries
            /\ \A i \in 1..Len(r) : SizeOf(r[i]) = NthLargestSize(i)

\* a report over more keys than N, served in several pages, with two sizes
C1_Witness ==
    /\ Returned /\ IntSizes
    /\ K > heap_size /\ heap_size >= 2
    /\ Len(requested) >= 2
    /\ \E e, f \in Entries : SizeOf(e) # SizeOf(f)
    /\ Len(key_memory_heap_sorted) = heap_size

\* ---------------------------------------------------------------- C2
MissingKeys == {k \in DOMAIN memory_usage : memory_usage[k] = None}

\* the N largest sizes among the keys that still exist
NthLargestPresentSize(i) ==
    CHOOSE s \in Sizes :
        LET present == DOMAIN memory_usage \ MissingKeys
        IN  /\ Cardinality({k \in present : memory_usage[k] > s}) < i
            /\ Cardinality({k \in present : memory_usage[k] >= s}) >= i

\* C2: when the size lookup reports None for one key, the report still
\* completes: largest_keys raises nothing in its heap operations or its
\* sort, and the list it returns excludes that key and is the top N of the
\* remaining keys.
C2_MissingKeyIsSkipped ==
    (mode = "report" /\ Cardinality(MissingKeys) = 1) =>
        /\ error \notin {"heap", "sort"}
        /\ Returned =>
             LET r == key_memory_heap_sorted
             IN  /\ \A i \in 1..Len(r) : KeyOf(r[i]) \notin MissingKeys
                 /\ Len(r) = Min(K - 1, heap_size)
                 /\ \A i \in 1..Len(r) : SizeOf(r[i]) = NthLargestPresentSize(i)

\* ---------------------------------------------------------------- C3
\* C3 as stated: in every state of a report the heap holds at most
\* heap_size entries.
C3_AtMostN ==
    (mode = "report" /\ heap_size >= 1) => Len(key_memory_heap) <= heap_size

\* C3 as amended: the heap holds at most heap_size + 1 entries in every
\* state, and at most heap_size entries in every state but the one between
\* the heappush that made it too long and the heappop that follows.
C3_AtMostNPlusOne ==
    (mode = "report" /\ heap_size >= 1) =>
        /\ Len(key_memory_heap) <= heap_size + 1
        /\ pc # "pop" => Len(key_memory_heap) <= heap_size

\* the heap after the push that overfills it, in a keyspace of more than N keys
C3_Witness ==
    /\ mode = "report"
    /\ pc = "pop"
    /\ Len(key_memory_heap) = heap_size + 1
    /\ K > heap_size

\* ---------------------------------------------------------------- C4
\* C4: main prints one line per entry of the returned list, the entry's key
\* before the colon and its size after it, in the list's (descending) order.
C4_KeyColonSize ==
    (mode = "report" /\ IntSizes) =>
        /\ Len(stdout) <= Len(key_memory_heap_sorted)
        /\ pc = "exit" /\ ~no_keys => Len(stdout) = Len(key_memory_heap_sorted)
        /\ \A i \in 1..Len(stdout) :
             /\ stdout[i].before_colon = KeyOf(key_memory_heap_sorted[i])
             /\ stdout[i].after_colon = SizeOf(key_memory_heap_sorted[i])

\* ------------------------------------------------------------ C5, C6
RECURSIVE Served(_)
\* the keys served by the first i scan replies
Served(i) == IF i = 0 THEN 0 ELSE Served(i - 1) + replied[i].n

\* The store paged exactly: every page so far held batch_size keys, or all
\* the keys still left when these are fewer.
ExactPaging ==
    \A i \in 1..Len(replied) : replied[i].n = Min(batch_size, K - Served(i - 1))

NonEmptyBatches == {i \in 1..Len(executed) : executed[i] > 0}

\* C5 as stated: against an exactly paging store largest_keys calls
\* pipeline.execute exactly ceil(K/B) times.
C5_CeilExecutes ==
    (Returned /\ ExactPaging) => Len(executed) = Ceil(K, batch_size)

\* C5 as amended: against an exactly paging store largest_keys calls
\* pipeline.execute once per scan reply, with the page as the batch: the
\* first ceil(K/B) calls carry B keys each and the last of them the rest,
\* and one more call with an empty batch follows when the store reports
\* completion on an empty page (as it must when K = 0).
C5_ExecutePerPage ==
    (Returned /\ ExactPaging) =>
        LET c == Ceil(K, batch_size)
        IN  /\ Len(executed) = Len(replied)
            /\ NonEmptyBatches = 1..c
            /\ \A i \in 1..c : executed[i] = Min(batch_size, K - (i - 1) * batch_size)
            /\ Len(executed) \in {c, c + 1}
            /\ K = 0 => executed = <<0>>

\* three keys served in pages of two: batches of 2 and 1
C5_Witness ==
    /\ Returned /\ ExactPaging
    /\ K = 3 /\ batch_size = 2
    /\ executed = <<2, 1>>

\* C6: the first scan passes cursor 0, every later scan passes the cursor
\* the scan before it returned, no cursor is passed twice, no scan follows a
\* reply with cursor 0, largest_keys returns only after such a reply, there
\* are at most K + 1 scans (each but the last serves a key the scans before
\* it did not), and against an exactly paging store the
\* scans are the ceil(K/B) pages with keys plus the final boundary request
\* when the store completes on an empty page.
C6_CursorChain ==
    mode = "report" =>
        /\ Len(replied) <= Len(requested) /\ Len(requested) <= Len(replied) + 1
        /\ requested # <<>> => requested[1] = 0
        /\ \A i \in 2..Len(requested) : requested[i] = replied[i - 1].cursor
        /\ \A i, j \in 1..Len(requested) : i # j => requested[i] # requested[j]
        /\ \A i \in 1..Len(replied) :
             replied[i].cursor = 0 => i = Len(requested)
        /\ Len(requested) <= K + 1
        /\ Returned => /\ replied # <<>>
                       /\ Len(requested) = Len(replied)
                       /\ replied[Len(replied)].cursor = 0
        /\ (Returned /\ ExactPaging) =>
              Len(requested) = Ceil(K, batch_size)
                               + (IF replied[Len(replied)].n = 0 THEN 1 ELSE 0)

\* Under FairSpec every run ends: main exits or an exception has left it.
C6_Terminates == <>(pc \in {"exit", "raised"})

\* a complete enumeration of three keys in three requests
C6_Witness ==
    /\ Returned /\ ExactPaging
    /\ K = 3 /\ batch_size = 2
    /\ Len(requested) = 3
    /\ replied[3].n = 0

\* ---------------------------------------------------------------- C7
\* C7: when a scan or a pipelined lookup fails, on whatever page, the report
\* is over with that failure: largest_keys returns no list and main prints
\* neither a result line nor the no-keys message.
C7_NoPartialReport ==
    error \in {"scan", "lookup"} =>
        /\ pc = "raised"
        /\ key_memory_heap_sorted = <<>>
        /\ stdout = <<>>
        /\ ~no_keys

\* a lookup failing on the second page, after the keys of the first page
\* went through the heap
C7_Witness ==
    /\ error = "lookup"
    /\ Len(replied) = 2
    /\ replied[1].n > 0 /\ replied[2].n > 0

\* ---------------------------------------------------------------- C8
EntryGreater(f, e) ==
    SizeOf(f) > SizeOf(e) \/ (SizeOf(f) = SizeOf(e) /\ KeyOf(f) > KeyOf(e))

\* the N greatest entries of the keyspace: a function of the keyspace and N
\* alone, not of the order or the paging of the enumeration
GreatestEntries ==
    {e \in Entries : Cardinality({f \in Entries : EntryGreater(f, e)}) < heap_size}

\* C8: whatever order and paging the store uses, the set of entries that
\* largest_keys returns for a keyspace with integer sizes is the same set, so
\* two reports on the same unmutated keyspace return set-equal results.
C8_SameSetForEveryEnumeration ==
    (Returned /\ IntSizes) => Range(key_memory_heap_sorted) = GreatestEntries

\* a report that had to leave out one of two entries of equal size
C8_Witness ==
    /\ Returned /\ IntSizes
    /\ Len(requested) >= 2
    /\ \E e \in Range(key_memory_heap_sorted) :
         \E f \in Entries \ Range(key_memory_heap_sorted) : SizeOf(e) = SizeOf(f)

\* ---------------------------------------------------------------- C9
\* C9: once populate_synthetic is done the store holds exactly the keys
\* key0 .. key(numKeys-1), each with a value of length keyLength.
C9_ExactlyNumKeys ==
    (mode = "synpopulate" /\ pc = "exit") =>
        /\ DOMAIN db = {keyName(i) : i \in 0..(numKeys - 1)}
        /\ \A n \in DOMAIN db : Len(db[n]) = keyLength

\* what holds in every run: the keys held are those whose set did not raise
C9_KeysThatWereSet ==
    (mode = "synpopulate" /\ pc = "exit") =>
        /\ DOMAIN db = {keyName(i) : i \in (0..(numKeys - 1)) \ set_failed}
        /\ \A n \in DOMAIN db : Len(db[n]) = keyLength

\* --------------------------------------------------------------- C10
\* the entry the for loop took last
Offered == <<results[idx], keys[idx]>>

\* an offer to a full heap is complete and no None was involved
OfferToFullHeapDone ==
    /\ mode = "report" /\ pc = "zip" /\ idx >= 1
    /\ Len(prev_heap) = heap_size
    /\ SizeOf(Offered) # None
    /\ \A e \in Range(prev_heap) : SizeOf(e) # None

MinSizeHeld == CHOOSE s \in Sizes :
    /\ \E e \in Range(prev_heap) : SizeOf(e) = s
    /\ \A e \in Range(prev_heap) : SizeOf(e) >= s

\* the least entry held, in the order of Python's tuples
LeastHeld == CHOOSE m \in Range(prev_heap) :
    \A e \in Range(prev_heap) : e = m \/ EntryGreater(e, m)

\* C10 as stated: an entry offered to a full heap replaces an entry of
\* minimum size when its size is strictly greater than that minimum; when
\* its size is less than or equal to the minimum the heap's contents are
\* unchanged.
C10_ReplaceOnlyIfLarger ==
    OfferToFullHeapDone =>
        IF SizeOf(Offered) > MinSizeHeld
        THEN \E m \in Range(prev_heap) :
               /\ SizeOf(m) = MinSizeHeld
               /\ Range(key_memory_heap) = (Range(prev_heap) \ {m}) \cup {Offered}
        ELSE Range(key_memory_heap) = Range(prev_heap)

\* C10 as amended: an entry offered to a full heap replaces the least entry
\* held, in the order of (size, key) tuples, when its size is strictly greater
\* than the minimum size held or equal to it with a key that sorts after the
\* least entry's key; otherwise the heap's contents are unchanged.
C10_ReplaceIfTupleLarger ==
    OfferToFullHeapDone =>
        IF EntryGreater(Offered, LeastHeld)
        THEN Range(key_memory_heap) = (Range(prev_heap) \ {LeastHeld}) \cup {Offered}
        ELSE Range(key_memory_heap) = Range(prev_heap)

\* an entry as large as the minimum held, with a greater key, got in
C10_Witness ==
    /\ OfferToFullHeapDone
    /\ SizeOf(Offered) = MinSizeHeld
    /\ KeyOf(Offered) > KeyOf(LeastHeld)
    /\ Offered \in Range(key_memory_heap)
    /\ LeastHeld \notin Range(key_memory_heap)

====
